---- MODULE Spec2Model ----
(***************************************************************************)
(* Model of examples/demo/scene/magnify.py: the magnifying-lens transform  *)
(* (MagnifyTransform, Magnify1DTransform) and the camera that animates it  *)
(* (MagCamera).                                                            *)
(*                                                                         *)
(* Numbers.  The program computes in IEEE floating point.  The model uses  *)
(* fixed point: a real v is the integer round(v * Scale), Scale = 10^6,    *)
(* and every product and quotient is rounded to the nearest unit, as       *)
(* every floating-point operation is rounded to the nearest float.  A      *)
(* vector whose coordinates are all NaN (the only way NaN arises here:     *)
(* 0/0 in every coordinate at once) is the value NaNPoint.  A              *)
(* division x/0 inside a comparison makes the comparison false, as IEEE    *)
(* and numpy do (NaN and inf compare false with <).                        *)
(*                                                                         *)
(* Points are <<x, y>>; arg_to_vec4 pads z = 0, w = 1, and as_vec4 pads    *)
(* the center the same way, so both padded differences are 0 and neither   *)
(* the distance nor the result's z, w depend on them.                      *)
(***************************************************************************)
EXTENDS Integers, Sequences, FiniteSets, TLC

VARIABLES
    mag,         \* MagCamera.mag, the MagnifyTransform object: a record of its
                 \*   fields center, mag, radii, trans, trans_tex,
                 \*   trans_tex_max, and of the uniforms it has assigned to
                 \*   its two shader functions (shader_map, shader_imap)
    kind,        \* class of the transform: "2D" (MagnifyTransform) or "1D"
                 \*   (Magnify1DTransform)
    raised,      \* exception raised by the last call, or None
    mag_target,  \* MagCamera.mag_target
    mouse_pos,   \* MagCamera.mouse_pos
    timer,       \* MagCamera.timer is running
    x,           \* argument of the last map call
    xm,          \* result of the last map call
    xr,          \* result of the last imap call
    last,        \* the last operation and its inputs
    nevents,     \* pointer events handled so far
    nticks       \* timer ticks handled so far

vars == <<mag, kind, raised, mag_target, mouse_pos, timer, x, xm, xr, last,
          nevents, nticks>>

-----------------------------------------------------------------------------
(* Fixed-point arithmetic.                                                 *)

Scale == 10^6
One == Scale
None == [none |-> TRUE]
NaNPoint == [nan |-> TRUE]

Abs(a) == IF a < 0 THEN -a ELSE a
Sign(a) == IF a < 0 THEN -1 ELSE 1
Max(a, b) == IF a > b THEN a ELSE b
Min(a, b) == IF a < b THEN a ELSE b

\* Definitions take their intermediate results as parameters rather than
\* naming them in a LET, so that each is written, and evaluated, once.

\* <<q + r \div c, r % c>>: the quotient and remainder of q * c + r by c
QRNorm(q, r, c) == <<q + r \div c, r % c>>

\* One base-16 digit d of the multiplier: from h = <<q, r>> of a * b by c to
\* that of a * (16 * b + d) by c.
QRStep(h, d, a, c) ==
    QRNorm(16 * h[1] + d * (a \div c), 16 * h[2] + d * (a % c), c)

\* <<q, r>> with a * b = q * c + r and 0 <= r < c, for a, b >= 0 and c > 0,
\* computed one base-16 digit of b at a time so that no intermediate exceeds
\* 31 * c or the quotient (the products themselves pass 2^31).
RECURSIVE MulDivQR(_, _, _)
MulDivQR(a, b, c) ==
    IF b = 0 THEN <<0, 0>>
    ELSE QRStep(MulDivQR(a, b \div 16, c), b % 16, a, c)

\* sgn * (q + r / c) rounded to the nearest integer
RoundQR(sgn, qr, c) == sgn * (qr[1] + (IF 2 * qr[2] >= c THEN 1 ELSE 0))

\* a * b / c rounded to the nearest integer, any signs, c # 0.
MulDiv(a, b, c) ==
    RoundQR(Sign(a) * Sign(b) * Sign(c),
            MulDivQR(Abs(a), Abs(b), Abs(c)), Abs(c))

FMul(a, b) == MulDiv(a, b, Scale)
FDiv(a, b) == MulDiv(a, Scale, b)

\* sd <= sa + sb for double-width numbers <<q, r>> = q * Scale + r
QRLeSum(sd, sa, sb) ==
    \/ sd[1] < sa[1] + sb[1] + (sa[2] + sb[2]) \div Scale
    \/ /\ sd[1] = sa[1] + sb[1] + (sa[2] + sb[2]) \div Scale
       /\ sd[2] <= (sa[2] + sb[2]) % Scale

\* d * d <= a * a + b * b, compared exactly in double width, a, b, d >= 0.
SqLeSum(d, a, b) ==
    QRLeSum(MulDivQR(d, d, Scale), MulDivQR(a, a, Scale),
            MulDivQR(b, b, Scale))

\* The largest d in lo..hi with d * d <= a * a + b * b
RECURSIVE SqrtSearch(_, _, _, _)
SqrtSearch(lo, hi, a, b) ==
    IF lo >= hi THEN lo
    ELSE IF SqLeSum((lo + hi + 1) \div 2, a, b)
         THEN SqrtSearch((lo + hi + 1) \div 2, hi, a, b)
         ELSE SqrtSearch(lo, (lo + hi + 1) \div 2 - 1, a, b)

\* (a**2 + b**2) ** 0.5 for a, b >= 0
Hypot(a, b) == SqrtSearch(Max(a, b), a + b, a, b)

\* ((dx**2).sum(axis=-1)) ** 0.5
Norm(dx) == Hypot(Abs(dx[1]), Abs(dx[2]))

Pi == 3141593

\* cos(a) from a2 = a * a, for 0 <= a <= pi/2: the Taylor series to a^12, in
\* Horner form.
CosSeries(a2) ==
    One - FMul(a2, One - FMul(a2, One - FMul(a2, One - FMul(a2,
          One - FMul(a2, One - a2 \div 132) \div 90) \div 56) \div 30)
          \div 12) \div 2

\* 2 * h * h - 1
DoubleAngle(h) == 2 * FMul(h, h) - One

\* np.cos for |a| <= pi: cos(a) = 2 * cos(a/2)^2 - 1
Cos(a) == DoubleAngle(CosSeries(FMul(a \div 2, a \div 2)))

-----------------------------------------------------------------------------
(* MagnifyTransform: the transition tables.                                *)
(*                                                                         *)
(* A cached pair of tables (y, yi) is denoted by the (m, r1, r2) it was    *)
(* built from, and its entries are computed from those on lookup: the      *)
(* tables are a pure function of the three numbers read at build time, so  *)
(* a table that outlives a parameter change keeps its old entries.  The    *)
(* float32 cast of the entries rounds at about the model's own resolution  *)
(* and is not modelled separately.                                         *)

TransResolution == 1000

\* m, r1, r2 = self.magnification, self.radii[0], self.radii[1]
TableOf(m, r) == [m |-> m, r1 |-> r[1], r2 |-> r[2]]

\* a + i * (b - a) / (res - 1): entry i of np.linspace(a, b, res)
Linspace(a, b, i) == a + MulDiv(i, b - a, TransResolution - 1)

\* xi = np.linspace(r1, r2, res)
XiAt(t, j) == Linspace(t.r1, t.r2, j)

\* t = 0.5 * (1 + np.cos((xi - r2) * np.pi / (r2 - r1))), for one xi
Blend(t, xi) == (One + Cos(MulDiv(xi - t.r2, Pi, t.r2 - t.r1))) \div 2

\* xi * t + xi * (1-t) / m, for one xi and its blend weight b
Mix(t, xi, b) == FMul(xi, b) + FDiv(FMul(xi, One - b), t.m)

Yi(t, xi) == Mix(t, xi, Blend(t, xi))

\* yi = (xi * t + xi * (1-t) / m)
YiAt(t, j) == Yi(t, XiAt(t, j))

\* x = np.linspace(r1 / m, r2, res)
XAt(t, i) == Linspace(FDiv(t.r1, t.m), t.r2, i)

\* The largest j in lo..hi with yi[j] <= v, given yi[lo] <= v (binary search,
\* as np.interp does on its increasing xp).
RECURSIVE InterpIndex(_, _, _, _)
InterpIndex(t, v, lo, hi) ==
    IF lo >= hi THEN lo
    ELSE IF YiAt(t, (lo + hi + 1) \div 2) <= v
         THEN InterpIndex(t, v, (lo + hi + 1) \div 2, hi)
         ELSE InterpIndex(t, v, lo, (lo + hi + 1) \div 2 - 1)

\* The line through (x0, y0) and (x1, y1) at v
Lerp(v, x0, x1, y0, y1) == y0 + MulDiv(v - x0, y1 - y0, x1 - x0)

\* The interpolation of v between entries j and j + 1
InterpAt(t, v, j) ==
    Lerp(v, YiAt(t, j), YiAt(t, j + 1), XiAt(t, j), XiAt(t, j + 1))

\* np.interp(v, yi, xi): linear interpolation, clamped to the end values.
Interp(t, v) ==
    IF v <= YiAt(t, 0) THEN XiAt(t, 0)
    ELSE IF v >= YiAt(t, TransResolution - 1) THEN XiAt(t, TransResolution - 1)
    ELSE InterpAt(t, v, InterpIndex(t, v, 0, TransResolution - 2))

\* y = np.interp(x, yi, xi)
YAt(t, i) == Interp(t, XAt(t, i))

\* mx = y.max(), yi.max(), denoted by the table the maxima were taken of
TexMaxOf(t) == [max_of |-> t]
\* (y/mx[0], yi/mx[1]), the data uploaded to the two textures
TexOf(t) == [data_of |-> t]

\* _get_transition: builds and publishes the tables when none is cached.
\* It has no check of its parameters and no raise statement.
GetTransition(T) ==
    IF T.trans = None
    THEN LET t == TableOf(T.mag, T.radii)
         IN  [T EXCEPT !.trans = t, !.trans_tex_max = TexMaxOf(t),
                       !.trans_tex = TexOf(t)]
    ELSE T

-----------------------------------------------------------------------------
(* MagnifyTransform: construction, shader uniforms, setters.               *)

DefaultMag == 5
DefaultR1 == 7
DefaultR2 == 10

\* MagnifyTransform.__init__
NewTransform ==
    [center |-> <<0, 0>>, mag |-> DefaultMag * Scale,
     radii |-> <<DefaultR1 * Scale, DefaultR2 * Scale>>,
     trans |-> None, trans_tex |-> None, trans_tex_max |-> None,
     shader_map |-> None, shader_imap |-> None]

ShaderMap(T) ==
    LET U == GetTransition(T)
    IN  [U EXCEPT !.shader_map =
            [center |-> U.center, mag |-> U.mag,
             radii |-> <<FDiv(U.radii[1], U.mag), U.radii[2]>>,
             trans |-> U.trans_tex, trans_max |-> U.trans_tex_max]]

ShaderImap(T) ==
    LET U == GetTransition(T)
    IN  [U EXCEPT !.shader_imap =
            [center |-> U.center, mag |-> FDiv(One, U.mag),
             radii |-> U.radii,
             trans |-> U.trans_tex, trans_max |-> U.trans_tex_max]]

\* np.allclose(a, b): |a - b| <= atol + rtol * |b| in every coordinate, with
\* numpy's defaults rtol = 1e-5, atol = 1e-8 (1/100 of a unit of the model).
AllClose(a, b) ==
    \A i \in 1..2 : Abs(a[i] - b[i]) <= (1000 + Abs(b[i])) \div 100000

SetCenter(T, c) ==
    IF AllClose(T.center, c) THEN T
    ELSE ShaderImap(ShaderMap([T EXCEPT !.center = c]))

\* The magnification setter without self._trans = None
SetMagnificationStale(T, m) ==
    IF T.mag = m THEN T
    ELSE ShaderImap(ShaderMap([T EXCEPT !.mag = m]))

SetMagnification(T, m) ==
    IF T.mag = m THEN T
    ELSE ShaderImap(ShaderMap([T EXCEPT !.mag = m, !.trans = None]))

SetRadii(T, r) ==
    IF AllClose(T.radii, r) THEN T
    ELSE ShaderImap(ShaderMap([T EXCEPT !.radii = r, !.trans = None]))

-----------------------------------------------------------------------------
(* MagnifyTransform.map and imap.                                          *)

\* c + unit * s
Along(c, unit, s) == <<c[1] + FMul(unit[1], s), c[2] + FMul(unit[2], s)>>

\* The index map reads its table at, for a distance dist in the transition
\* region that starts at edge: np.clip((dist - edge) * len(temp) /
\* (r2 - edge), 0, res - 1).astype(int)
TransIndex(dist, edge, r2) ==
    Min(MulDivQR(Max(dist - edge, 0), TransResolution, r2 - edge)[1],
        TransResolution - 1)

\* The three regions of map, for a point at distance dist > 0 in direction
\* unit; edge is the inner boundary (r1/m forward, r1 inverse).  The
\* assignments to xm are in this order: inner, then outer, then the rest.
Regions(T, t, p, inverse, dist, unit, edge) ==
    IF dist > T.radii[2] THEN p
    ELSE IF dist < edge
         THEN Along(T.center, unit,
                    IF inverse THEN FDiv(dist, T.mag) ELSE FMul(dist, T.mag))
         ELSE Along(T.center, unit,
                    IF inverse THEN YiAt(t, TransIndex(dist, edge, T.radii[2]))
                    ELSE YAt(t, TransIndex(dist, edge, T.radii[2])))

\* unit = dx / dist.  With dist = 0 (dx = 0, or a NaN distance reset to 0)
\* unit is 0/0 = NaN in every coordinate, and whichever region the point is
\* then put in, NaN * s = NaN.
Directed(T, t, p, inverse, dx, dist) ==
    IF dist = 0 THEN NaNPoint
    ELSE Regions(T, t, p, inverse, dist,
                 <<FDiv(dx[1], dist), FDiv(dx[2], dist)>>,
                 IF inverse THEN T.radii[1] ELSE FDiv(T.radii[1], T.mag))

\* dx = x - c; dist = |dx|
FromCenter(T, t, p, inverse, dx) == Directed(T, t, p, inverse, dx, Norm(dx))

\* The value map(p, _inverse) returns for a transform in state T, whose
\* _get_transition() returns the tables t.  Magnify1DTransform overrides
\* glsl_map only and inherits this method.
MapPoint(T, t, p, inverse) ==
    IF p = NaNPoint THEN NaNPoint
    ELSE FromCenter(T, t, p, inverse,
                    <<p[1] - T.center[1], p[2] - T.center[2]>>)

-----------------------------------------------------------------------------
(* MagCamera.                                                              *)

InitialTarget == 3

\* s = 0.0001**dt, for the three dt the model uses:
\*   dt = 0.001, on_timer() called with no event (from view_mouse_event);
\*   dt = 0.016, a timer event that arrives on the timer's interval;
\*   dt = 0.25,  a timer event that arrives late (event.dt is the time that
\*               has passed since the last tick).
DecayNoEvent == 990832
DecayInterval == 862979
DecayLate == 100000

\* 1.2 ** d for an integer d
RECURSIVE Pow12(_)
Pow12(d) ==
    IF d = 0 THEN One
    ELSE IF d > 0 THEN FMul(Pow12(d - 1), 12 * (Scale \div 10))
    ELSE FDiv(One, Pow12(-d))

\* m = m if m > 1 else 1
AtLeastOne(m) == IF m > One THEN m ELSE One

\* The wheel branch without its clamp
WheelTargetUnclamped(m, d) == FMul(m, Pow12(d))

\* The wheel branch of view_mouse_event: m *= 1.2 ** event.delta[1];
\* m = m if m > 1 else 1
WheelTarget(m, d) == AtLeastOne(FMul(m, Pow12(d)))

\* np.abs((c - c1) / c1) < 1e-5 for one coordinate.  With c1 = 0 the quotient
\* is NaN (c = 0) or inf (c # 0) and the comparison is false.
RelStepSmall(c, c1) ==
    /\ c1 # 0
    /\ Abs(c - c1) <= (Abs(c1) - 1) \div 100000

\* lo9 / 10^9 < a / b < hi9 / 10^9, for a, b > 0
Between(q, lo, hi) == q >= lo /\ q <= hi

RatioWithin(a, b, lo9, hi9) ==
    /\ a < 2 * b
    /\ Between(MulDivQR(a, 10^9, b)[1], lo9, hi9)

\* np.abs(np.log(a / b)) < 1e-3: exp(-0.001) < a / b < exp(0.001)
LogStepSmall(a, b) == RatioWithin(a, b, 999000500, 1001000500)

\* The test without its magnification half
ConvergedCenterOnly(c, c1, m, m0) ==
    \A i \in 1..2 : RelStepSmall(c[i], c1[i])

\* The test that stops the timer in on_timer
Converged(c, c1, m, m0) ==
    /\ \A i \in 1..2 : RelStepSmall(c[i], c1[i])
    /\ LogStepSmall(m, m0)

\* app.Timer.start() and stop(), as the running flag they leave
TimerStart(running) == TRUE
\* A stop that leaves the timer as it was
TimerStopIgnored(running) == running
TimerStop(running) == FALSE

\* r in _set_scene_transform for a viewbox of size vbs: min(vbs) / 2 in
\* MagCamera, vbs[0] / 4 in Mag1DCamera
LensRadius(k, vbs) ==
    IF k = "2D" THEN Min(vbs[1], vbs[2]) \div 2 ELSE vbs[1] \div 4

\* self.mag.radii = r*0.7, r
RadiiFor(r) == <<FMul(r, 7 * (Scale \div 10)), r>>

\* _set_scene_transform, as far as the transform goes
SetSceneTransform(T, k, vbs) == SetRadii(T, RadiiFor(LensRadius(k, vbs)))

\* _update_transform: the base camera re-establishes the scene transform,
\* which arrives in _set_scene_transform with the size of the viewbox.
UpdateTransform(T, k, vbs) == SetSceneTransform(T, k, vbs)

\* a * s + b * (1-s)
Smooth(a, b, s) == FMul(a, s) + FMul(b, One - s)

\* The rest of on_timer once c1 and m are computed
OnTimerApply(T, c1, m, k, vbs) ==
    [stop |-> Converged(T.center, c1, m, T.mag),
     mag |-> UpdateTransform(SetMagnification(SetCenter(T, c1), m), k, vbs)]

\* on_timer for a transform T of class k, target magnification, pointer
\* position, s = 0.0001**dt and a viewbox of size vbs: the transform it
\* leaves and whether it stopped the timer.
OnTimer(T, target, pos, s, k, vbs) ==
    OnTimerApply(T, <<Smooth(T.center[1], pos[1], s),
                      Smooth(T.center[2], pos[2], s)>>,
                 Smooth(T.mag, target, s), k, vbs)

\* MagCamera.__init__ and Mag1DCamera.__init__, which replaces the transform
\* by a Magnify1DTransform whose _mag it sets the same way
CameraInit ==
    /\ mag = [NewTransform EXCEPT !.mag = InitialTarget * Scale]
    /\ kind \in {"2D", "1D"}
    /\ mag_target = InitialTarget * Scale
    /\ mouse_pos = None
    /\ timer = FALSE
    /\ raised = None
    /\ x = None /\ xm = None /\ xr = None
    /\ last = [op |-> "init"]
    /\ nevents = 0 /\ nticks = 0

\* view_mouse_event(event); for an event that is no wheel event the base
\* camera's handler runs, which knows nothing of mag_target.
ViewMouseEvent(type, pos, delta, vbs) ==
    LET target == IF type = "mouse_wheel" THEN WheelTarget(mag_target, delta)
                  ELSE mag_target
        r == OnTimer(mag, target, pos, DecayNoEvent, kind, vbs)
    IN  /\ mouse_pos' = pos
        /\ mag_target' = target
        /\ mag' = UpdateTransform(r.mag, kind, vbs)
        /\ timer' = TimerStart(IF r.stop THEN TimerStop(timer) ELSE timer)
        /\ last' = [op |-> "view_mouse_event", type |-> type, pos |-> pos,
                    delta |-> delta, stop |-> r.stop, was_running |-> timer]
        /\ nevents' = nevents + 1
        /\ UNCHANGED <<kind, raised, x, xm, xr, nticks>>

\* The timer fires (only while it runs) and calls on_timer(event).
TimerEvent(s, vbs) ==
    /\ timer
    /\ LET r == OnTimer(mag, mag_target, mouse_pos, s, kind, vbs)
       IN  /\ mag' = r.mag
           /\ timer' = IF r.stop THEN TimerStop(timer) ELSE timer
           /\ last' = [op |-> "on_timer", stop |-> r.stop]
    /\ UNCHANGED <<kind, raised, mag_target, mouse_pos, x, xm, xr, nevents>>

-----------------------------------------------------------------------------
(* Specification of the camera: pointer events and timer ticks on a newly  *)
(* constructed MagCamera.                                                  *)

MaxEvents == 2

EventTypes == {"mouse_wheel", "mouse_move"}
EventPositions == {<<5 * Scale, 5 * Scale>>, <<200 * Scale, 120 * Scale>>}
\* From the initial target 3, a delta of -7 is clamped (3 * 1.2^-7 < 1);
\* from 3.6 it is not (3.6 * 1.2^-7 > 1).
WheelDeltas == {-7, 1}
ViewboxSizes == {<<40 * Scale, 30 * Scale>>}

CamEvent ==
    /\ nevents < MaxEvents
    /\ \E type \in EventTypes, pos \in EventPositions, delta \in WheelDeltas,
          vbs \in ViewboxSizes :
          /\ type = "mouse_move" => delta = 1
          /\ ViewMouseEvent(type, pos,
                            IF type = "mouse_wheel" THEN delta ELSE 0, vbs)

CamTick ==
    /\ \E vbs \in ViewboxSizes : TimerEvent(DecayLate, vbs)
    /\ UNCHANGED nticks

CamNext == CamEvent \/ CamTick

SpecCam == CameraInit /\ [][CamNext]_vars

\* A step that handles a pointer event / a timer event
EventStep == nevents' = nevents + 1
TickStep == last'.op = "on_timer" /\ ~EventStep

\* max(1, m * 1.2^d)
ClampedZoom(m, d) == Max(One, FMul(m, Pow12(d)))

\* C3: a wheel event with scroll delta d sets mag_target to
\* max(1, mag_target * 1.2^d) (delta 1 at target 3 gives 3.6; a product below
\* 1 gives exactly 1), any other pointer event leaves mag_target unchanged,
\* and mag_target >= 1 in every reachable state.
ZoomGestureAndClamp ==
    /\ [](mag_target >= One)
    /\ [][EventStep =>
            IF last'.type = "mouse_wheel"
            THEN /\ mag_target' = ClampedZoom(mag_target, last'.delta)
                 /\ (mag_target = 3 * Scale /\ last'.delta = 1)
                        => mag_target' = 36 * (Scale \div 10)
                 /\ FMul(mag_target, Pow12(last'.delta)) < One
                        => mag_target' = One
            ELSE mag_target' = mag_target]_vars

\* A wheel event whose product fell below 1 has just been clamped to 1.
ZoomClampReached ==
    /\ last.op = "view_mouse_event"
    /\ last.type = "mouse_wheel"
    /\ last.delta < 0
    /\ mag_target = One
    /\ nevents = 2

\* C4 as stated: the timer is not running initially, starts on a pointer
\* event that changes a target, stops when a tick detects convergence, and
\* once stopped resumes only on a pointer event that changes mag_target or
\* mouse_pos.
TimerLifecycleAsStated ==
    /\ [](last.op = "init" => ~timer)
    /\ [][(EventStep /\ (mag_target' # mag_target \/ mouse_pos' # mouse_pos))
            => timer']_vars
    /\ [][(TickStep /\ last'.stop) => ~timer']_vars
    /\ [][(~timer /\ timer') =>
            (EventStep /\ (mag_target' # mag_target \/ mouse_pos' # mouse_pos))
         ]_vars

\* C4 as amended: the timer is not running initially, runs after every
\* pointer event (whether or not the event changes a target), stops when a
\* tick detects convergence, and once stopped resumes only on a pointer
\* event.
TimerLifecycle ==
    /\ [](last.op = "init" => ~timer)
    /\ [][EventStep => timer']_vars
    /\ [][(TickStep /\ last'.stop) => ~timer']_vars
    /\ [][(~timer /\ timer') => EventStep]_vars

\* A second pointer event has restarted a timer that a tick had stopped.
TimerRestarted ==
    /\ last.op = "view_mouse_event"
    /\ nevents = 2
    /\ ~last.was_running
    /\ timer

-----------------------------------------------------------------------------
(* Specification of the convergence scenario: current magnification 1,     *)
(* target 5, the timer running, timer events every 0.016 s and no pointer  *)
(* event.                                                                  *)

TickLimit == 2000

ConvCenters == {<<0, 0>>, <<5 * Scale, 5 * Scale>>, <<4 * Scale, 6 * Scale>>}
ConvPositions == {<<5 * Scale, 5 * Scale>>, <<0, 5 * Scale>>,
                  <<200 * Scale, 120 * Scale>>}

\* A coordinate that decays from a value toward a pointer coordinate of 0
\* passes below the resolution of the fixed-point arithmetic, where the
\* model no longer follows the floats; such starts are left out.
ConvStarts ==
    {cp \in ConvCenters \X ConvPositions :
        \A i \in 1..2 : cp[2][i] = 0 => cp[1][i] = 0}

ConvInit ==
    /\ \E cp \in ConvStarts :
          /\ mag = [NewTransform EXCEPT !.mag = One, !.center = cp[1]]
          /\ mouse_pos = cp[2]
    /\ kind = "2D"
    /\ mag_target = 5 * Scale
    /\ timer = TRUE
    /\ raised = None
    /\ x = None /\ xm = None /\ xr = None
    /\ last = [op |-> "init"]
    /\ nevents = 0 /\ nticks = 0

ConvTick ==
    /\ nticks < TickLimit
    /\ \E vbs \in ViewboxSizes : TimerEvent(DecayInterval, vbs)
    /\ nticks' = nticks + 1

ConvNext == ConvTick

SpecConv == ConvInit /\ [][ConvNext]_vars

\* C1: from current magnification 1 and target 5, ticks of dt = 0.016 stop
\* the timer within fewer than TickLimit ticks, whatever the lens center and
\* the last pointer position.
StopsWithinTickLimit == nticks >= TickLimit => ~timer

\* exp(-tol) < a / b < exp(tol), for tol = 1e-3 and for tol = 1e-2
LogWithin001(a, b) == RatioWithin(a, b, 999000500, 1001000500)
LogWithin01(a, b) == RatioWithin(a, b, 990049834, 1010050167)

\* A tick has just stopped the timer.
JustStopped == last.op = "on_timer" /\ last.stop /\ ~timer

\* C2 as stated: when a tick has just stopped the timer, the magnification
\* of the transform is within 1e-3 (log scale) of the target.
StopsWithin001 == JustStopped => LogWithin001(mag.mag, mag_target)

\* C2 as amended: when a tick has just stopped the timer, the magnification
\* of the transform is within 1e-2 (log scale) of the target.
StopsWithin01 == JustStopped => LogWithin01(mag.mag, mag_target)

\* A tick has stopped the timer with the magnification further than 1e-3
\* (log scale) from the target.
StoppedShortOfTarget == JustStopped /\ ~LogWithin001(mag.mag, mag_target)

-----------------------------------------------------------------------------
(* Calls on a transform that stands alone.                                 *)

\* A newly constructed transform of class k, owned by no camera
LensInit(k) ==
    /\ kind = k
    /\ mag_target = InitialTarget * Scale
    /\ mouse_pos = None
    /\ timer = FALSE
    /\ raised = None
    /\ x = None /\ xm = None /\ xr = None
    /\ last = [op |-> "init"]
    /\ nevents = 0 /\ nticks = 0

\* map(p): the tables are fetched (and built on a miss) on every call.
CallMap(p) ==
    /\ mag' = GetTransition(mag)
    /\ x' = p
    /\ xm' = MapPoint(mag, mag'.trans, p, FALSE)
    /\ xr' = None
    /\ raised' = None
    /\ last' = [op |-> "map"]
    /\ UNCHANGED <<kind, mag_target, mouse_pos, timer, nevents, nticks>>

\* imap(p)
CallImap(p) ==
    /\ mag' = GetTransition(mag)
    /\ x' = p
    /\ xm' = None
    /\ xr' = MapPoint(mag, mag'.trans, p, TRUE)
    /\ raised' = None
    /\ last' = [op |-> "imap"]
    /\ UNCHANGED <<kind, mag_target, mouse_pos, timer, nevents, nticks>>

\* imap(map(p)), on the result of the map call that has just returned
CallImapOfMap ==
    /\ last.op = "map"
    /\ mag' = GetTransition(mag)
    /\ xr' = MapPoint(mag, mag'.trans, xm, TRUE)
    /\ raised' = None
    /\ last' = [op |-> "imap_of_map"]
    /\ UNCHANGED <<kind, mag_target, mouse_pos, timer, x, xm, nevents, nticks>>

CallSetCenter(c) ==
    /\ mag' = SetCenter(mag, c)
    /\ raised' = None
    /\ last' = [op |-> "set_center", arg |-> c, had_table |-> mag.trans # None]
    /\ UNCHANGED <<kind, mag_target, mouse_pos, timer, x, xm, xr, nevents,
                   nticks>>

CallSetMagnification(m) ==
    /\ mag' = SetMagnification(mag, m)
    /\ raised' = None
    /\ last' = [op |-> "set_magnification", arg |-> m,
                had_table |-> mag.trans # None]
    /\ UNCHANGED <<kind, mag_target, mouse_pos, timer, x, xm, xr, nevents,
                   nticks>>

CallSetRadii(r) ==
    /\ mag' = SetRadii(mag, r)
    /\ raised' = None
    /\ last' = [op |-> "set_radii", arg |-> r, had_table |-> mag.trans # None]
    /\ UNCHANGED <<kind, mag_target, mouse_pos, timer, x, xm, xr, nevents,
                   nticks>>

CallShaderMap ==
    /\ mag' = ShaderMap(mag)
    /\ raised' = None
    /\ last' = [op |-> "shader_map"]
    /\ UNCHANGED <<kind, mag_target, mouse_pos, timer, x, xm, xr, nevents,
                   nticks>>

CallShaderImap ==
    /\ mag' = ShaderImap(mag)
    /\ raised' = None
    /\ last' = [op |-> "shader_imap"]
    /\ UNCHANGED <<kind, mag_target, mouse_pos, timer, x, xm, xr, nevents,
                   nticks>>

CallGetTransition ==
    /\ mag' = GetTransition(mag)
    /\ raised' = None
    /\ last' = [op |-> "_get_transition"]
    /\ UNCHANGED <<kind, mag_target, mouse_pos, timer, x, xm, xr, nevents,
                   nticks>>

\* |a - b| <= tol in every coordinate, neither point NaN
PointClose(a, b, tol) ==
    /\ a # NaNPoint
    /\ b # NaNPoint
    /\ \A i \in 1..2 : Abs(a[i] - b[i]) <= tol

-----------------------------------------------------------------------------
(* Specification of the point mapping: map, imap and imap(map(.)) on       *)
(* transforms of both classes with valid parameters.                       *)

MapCenters == {<<0, 0>>, <<1 * Scale, 2 * Scale>>}
MapMags == {One, 5 * Scale}
MapRadii == {<<7 * Scale, 10 * Scale>>}

\* Offsets from the center: the center itself, the inner region, the inner
\* boundaries r1/m (1.4 and 7), the transition band, r2 and beyond.
MapOffsets ==
    {<<0, 0>>, <<500000, 0>>, <<300000, 400000>>, <<1400000, 0>>,
     <<3000000, 0>>, <<0, -3000000>>, <<7000000, 0>>, <<8000500, 0>>,
     <<8435000, 0>>, <<-6000000, 6000000>>, <<10000000, 0>>, <<20000000, 0>>}

MapPoints(c) == {<<c[1] + o[1], c[2] + o[2]>> : o \in MapOffsets}

MapInit ==
    /\ \E k \in {"2D", "1D"} : LensInit(k)
    /\ \E c \in MapCenters, m \in MapMags, r \in MapRadii :
          mag = [NewTransform EXCEPT !.center = c, !.mag = m, !.radii = r]

MapNext ==
    \/ \E p \in MapPoints(mag.center) : CallMap(p)
    \/ \E p \in MapPoints(mag.center) : CallImap(p)
    \/ CallImapOfMap

SpecMap == MapInit /\ [][MapNext]_vars

\* C5: imap(map(p)) differs from p by less than a floating tolerance (here
\* 1e-3, a thousand units of the arithmetic) in every coordinate, for every
\* point p in the inner region, the transition band and the outer region
\* (the point at the center itself is C7's).
RoundTripWithinTol ==
    (last.op = "imap_of_map" /\ x # mag.center)
        => PointClose(xr, x, Scale \div 1000)

\* C6: map(p) = p (up to the rounding of the arithmetic, 1e-5) whenever the
\* magnification is 1, also for p in the transition band (the point at the
\* center itself is C7's).
IdentityAtMagOne ==
    (last.op = "map" /\ mag.mag = One /\ x # mag.center)
        => PointClose(xm, x, Scale \div 100000)

\* C7: map and imap return a point that coincides with the center unchanged.
CenterIsFixed ==
    /\ (last.op = "map" /\ x = mag.center) => (xm # NaNPoint /\ xm = x)
    /\ (last.op = "imap" /\ x = mag.center) => (xr # NaNPoint /\ xr = x)

\* C9: map and imap of a Magnify1DTransform measure the distance on the x
\* axis and leave the other coordinate of every point unchanged (the point
\* at the center itself is C7's).
AxialKeepsOtherAxis ==
    /\ (kind = "1D" /\ last.op = "map" /\ x # mag.center)
          => (xm # NaNPoint /\ xm[2] = x[2])
    /\ (kind = "1D" /\ last.op = "imap" /\ x # mag.center)
          => (xr # NaNPoint /\ xr[2] = x[2])

-----------------------------------------------------------------------------
(* Specification of the table build: setters and builds on a new           *)
(* transform, with radii of every kind.                                    *)

InvalidParameters == [error |-> "InvalidParameters"]

\* r2 <= r1 or r1 <= 0
InvalidRadii(r) == r[2] <= r[1] \/ r[1] <= 0

BuildRadii ==
    {<<7 * Scale, 10 * Scale>>, <<35 * (Scale \div 10), 5 * Scale>>,
     <<10 * Scale, 10 * Scale>>, <<10 * Scale, 7 * Scale>>,
     <<0, 10 * Scale>>, <<-1 * Scale, 10 * Scale>>}
BuildMags == {One, 3 * Scale, 5 * Scale}
BuildCenters == {<<0, 0>>, <<1 * Scale, 2 * Scale>>}

BuildInit == LensInit("2D") /\ mag = NewTransform

BuildNext ==
    \/ \E r \in BuildRadii : CallSetRadii(r)
    \/ \E m \in BuildMags : CallSetMagnification(m)
    \/ \E c \in BuildCenters : CallSetCenter(c)
    \/ CallShaderMap
    \/ CallGetTransition

SpecBuild == BuildInit /\ [][BuildNext]_vars

\* C8: with r2 <= r1 or r1 <= 0 the table build fails with
\* InvalidParameters and no table is cached for such radii.
BuildRejectsInvalidRadii ==
    (InvalidRadii(mag.radii) /\ last.op # "init")
        => (raised = InvalidParameters /\ mag.trans = None)

-----------------------------------------------------------------------------
(* Specification of the cache: setters, shader functions and point         *)
(* mappings, in any order, on a new transform.                             *)

\* The second radii are allclose to the first without being equal to them.
CacheRadii ==
    {<<7 * Scale, 10 * Scale>>, <<7 * Scale + 10, 10 * Scale>>,
     <<35 * (Scale \div 10), 5 * Scale>>}
CacheMags == {One, 3 * Scale, 5 * Scale}
CacheCenters == {<<0, 0>>, <<1 * Scale, 2 * Scale>>}
CachePoints == {<<500000, 0>>, <<3000000, 4000000>>}

CacheInit == LensInit("2D") /\ mag = NewTransform

CacheNext ==
    \/ \E r \in CacheRadii : CallSetRadii(r)
    \/ \E m \in CacheMags : CallSetMagnification(m)
    \/ \E c \in CacheCenters : CallSetCenter(c)
    \/ CallShaderMap
    \/ CallShaderImap
    \/ \E p \in CachePoints : CallMap(p)
    \/ \E p \in CachePoints : CallImap(p)

SpecCache == CacheInit /\ [][CacheNext]_vars

\* The cached tables, their maxima, the texture data and the uniforms that
\* refer to them are those of the current magnification and radii.
Coherent(T) ==
    LET t == TableOf(T.mag, T.radii)
    IN  /\ T.trans # None =>
              /\ T.trans = t
              /\ T.trans_tex = TexOf(t)
              /\ T.trans_tex_max = TexMaxOf(t)
        /\ T.shader_map # None =>
              /\ T.shader_map.mag = T.mag
              /\ T.shader_map.trans = TexOf(t)
              /\ T.shader_map.trans_max = TexMaxOf(t)
        /\ T.shader_imap # None =>
              /\ T.shader_imap.radii = T.radii
              /\ T.shader_imap.trans = TexOf(t)
              /\ T.shader_imap.trans_max = TexMaxOf(t)

SetterStep == last'.op \in {"set_center", "set_magnification", "set_radii"}

\* C10: after any sequence of setter, shader_map/shader_imap and map/imap
\* calls the cached tables (and the maxima and textures published with them)
\* are those built from the current (magnification, r1, r2); a setter called
\* with the current value changes nothing; a setter that changes
\* magnification or radii leaves the tables of the new values cached.
CacheCoherence ==
    /\ [](Coherent(mag))
    /\ [][(/\ SetterStep
           /\ last'.arg = (CASE last'.op = "set_center" -> mag.center
                             [] last'.op = "set_magnification" -> mag.mag
                             [] last'.op = "set_radii" -> mag.radii))
            => mag' = mag]_vars
    /\ [][(SetterStep /\ (mag'.mag # mag.mag \/ mag'.radii # mag.radii))
            => mag'.trans = TableOf(mag'.mag, mag'.radii)]_vars

\* A setter has replaced tables that were cached for other parameters.
CacheRebuilt ==
    /\ last.op \in {"set_magnification", "set_radii"}
    /\ last.had_table
    /\ mag.mag # DefaultMag * Scale
    /\ mag.radii # <<DefaultR1 * Scale, DefaultR2 * Scale>>
    /\ mag.trans = TableOf(mag.mag, mag.radii)

=============================================================================
